---- MODULE Spec2Model ----
(***************************************************************************)
(* Model of src/app.py: the securities extraction                          *)
(* (extract_securities_amounts, nested in extract_securities_from_pdf),    *)
(* the page count test and the year-month of extract_securities_from_pdf,  *)
(* and the Excel ledger (initialize_database, save_to_database,            *)
(* load_database), also with failing file operations and with two calls    *)
(* of save_to_database side by side.                                       *)
(*                                                                         *)
(* Text is modelled character by character: a Python str is a sequence of  *)
(* one-character tokens.  The kanji and kana of the source are written as   *)
(* ASCII tokens, one token per character:                                  *)
(*   tan ki sha sai  = the four characters of the short-term-note label    *)
(*   sha sai         = the two characters of the bond label                *)
(*   koku sai        = government bond,  chi hou sai = municipal bond       *)
(*   kabu shiki      = stock,  gai koku shou ken = foreign securities      *)
(*   so no ta no shou ken = other securities                               *)
(*   nen, gatsu      = the year and the month character of a heading       *)
(* " " is the ASCII space, "\n" the line break, "0".."9" and "," as is.     *)
(***************************************************************************)
EXTENDS Integers, Sequences, FiniteSets, TLC

VARIABLES
    text,             \* page_text handed to extract_securities_amounts
    tables,           \* tables handed to extract_securities_amounts
    securities_data,  \* the result mapping being accumulated
    found_by,         \* per category: the debug_info record of the method that set it
    pc,               \* position inside extract_securities_amounts
    idx,              \* loop index of the method pc names
    num_pages,        \* len(pdf.pages) of the uploaded file
    year_month,       \* year_month of extract_securities_from_pdf
    db_exists,        \* os.path.exists(db_path)
    sheet,            \* the rows of the saved worksheet, the header row first
    clock,            \* datetime.now(), to the second
    last_save,        \* the last save_to_database call: its data and what it returned
    prev_save,        \* the save_to_database call before that one
    sheet_before,     \* the saved worksheet as the last save_to_database call found it
    loaded,           \* what load_database returned, if called since the last save
    writers           \* the calls of save_to_database that run side by side

exVars == <<text, tables, securities_data, found_by, pc, idx>>

pdfVars == <<num_pages, year_month>>

dbVars == <<db_exists, sheet, clock, last_save, prev_save, sheet_before, loaded>>

wrVars == <<writers>>

vars == <<exVars, pdfVars, dbVars, wrVars>>

(***************************************************************************)
(* Bounds of the model.                                                    *)
(***************************************************************************)
MaxLines == 2

MaxRows == 1

MaxClock == 1

(***************************************************************************)
(* Characters and small helpers.                                           *)
(***************************************************************************)
Digits == {"0", "1", "2", "3", "4", "5", "6", "7", "8", "9"}

NumChars == Digits \cup {","}

Whitespace == {" ", "\n"}

Min(S) == CHOOSE x \in S : \A y \in S : x <= y

\* length of the longest prefix of s made of characters of set
RunLen(s, set) ==
    LET bad == {i \in 1..Len(s) : s[i] \notin set}
    IN IF bad = {} THEN Len(s) ELSE Min(bad) - 1

\* p occurs in s at position i
IsAt(s, p, i) ==
    /\ i + Len(p) - 1 <= Len(s)
    /\ \A k \in 1..Len(p) : s[i + k - 1] = p[k]

\* str.find, 1-based; 0 when p does not occur
Find(s, p) ==
    LET hits == {i \in 1..(Len(s) - Len(p) + 1) : IsAt(s, p, i)}
    IN IF hits = {} THEN 0 ELSE Min(hits)

\* `p in s`
Contains(s, p) == Find(s, p) # 0

\* str.split('\n')
RECURSIVE Split(_)
Split(s) ==
    LET nl == {i \in 1..Len(s) : s[i] = "\n"}
    IN IF nl = {} THEN <<s>>
       ELSE <<SubSeq(s, 1, Min(nl) - 1)>> \o Split(SubSeq(s, Min(nl) + 1, Len(s)))

\* sep.join(parts)
RECURSIVE Join(_, _)
Join(parts, sep) ==
    IF parts = <<>> THEN <<>>
    ELSE IF Len(parts) = 1 THEN parts[1]
    ELSE parts[1] \o <<sep>> \o Join(Tail(parts), sep)

\* re.findall(r'([0-9,]+)', s): the maximal runs of digits and commas, in order
RECURSIVE FindAllNumbers(_)
FindAllNumbers(s) ==
    IF s = <<>> THEN <<>>
    ELSE IF Head(s) \notin NumChars THEN FindAllNumbers(Tail(s))
    ELSE LET n == RunLen(s, NumChars)
         IN <<SubSeq(s, 1, n)>> \o FindAllNumbers(SubSeq(s, n + 1, Len(s)))

\* num.replace(',', '')
StripCommas(num) == SelectSeq(num, LAMBDA ch : ch # ",")

\* str.isdigit()
IsDigit(s) == Len(s) > 0 /\ \A k \in 1..Len(s) : s[k] \in Digits

MinDigits == 4

\* the initial value "0" of every category: the not-found sentinel
NotFound == <<"0">>

(***************************************************************************)
(* The catalog: securities_patterns, an ordered dict.                      *)
(***************************************************************************)
\* iteration order of securities_patterns
CategoryOrder ==
    <<"tankishasai", "shasai", "kokusai", "chihousai", "kabushiki",
      "gaikokushouken", "sonotanoshouken">>

Categories == {CategoryOrder[k] : k \in 1..Len(CategoryOrder)}

securities_patterns ==
    [c \in Categories |->
        CASE c = "tankishasai" ->
                <<<<"tan", " ", "ki", " ", "sha", " ", "sai">>,
                  <<"tan", "ki", "sha", "sai">>>>
          [] c = "shasai" ->
                <<<<"sha", " ", "sai">>, <<"sha", "sai">>>>
          [] c = "kokusai" ->
                <<<<"koku", " ", "sai">>, <<"koku", "sai">>>>
          [] c = "chihousai" ->
                <<<<"chi", " ", "hou", " ", "sai">>, <<"chi", "hou", "sai">>>>
          [] c = "kabushiki" ->
                <<<<"kabu", " ", "shiki">>, <<"kabu", "shiki">>>>
          [] c = "gaikokushouken" ->
                <<<<"gai", " ", "koku", " ", "shou", " ", "ken">>,
                  <<"gai", "koku", "shou", "ken">>>>
          [] c = "sonotanoshouken" ->
                <<<<"so", " ", "no", " ", "ta", " ", "no", " ", "shou", " ", "ken">>,
                  <<"so", "no", "ta", "no", "shou", "ken">>,
                  <<"so", " ", "no", " ", "ta", " ", "shou", " ", "ken">>>>]

(***************************************************************************)
(* Validation shared by the three methods.                                 *)
(***************************************************************************)
\* faulty variant: the length test left out
ValidAmountAnyLength(clean_num) == IsDigit(clean_num)

\* clean_num.isdigit() and len(clean_num) >= 4
ValidAmount(clean_num) == IsDigit(clean_num) /\ Len(clean_num) >= MinDigits

\* faulty variant: only the first num is looked at
FirstOnly(numbers) ==
    IF numbers # <<>> /\ ValidAmount(StripCommas(numbers[1]))
    THEN StripCommas(numbers[1])
    ELSE NotFound

\* for num in numbers: the first num whose cleaned form is valid, cleaned;
\* NotFound when the loop ends without a break
FirstValid(numbers) ==
    LET ok == {k \in 1..Len(numbers) : ValidAmount(StripCommas(numbers[k]))}
    IN IF ok = {} THEN NotFound ELSE StripCommas(numbers[Min(ok)])

(***************************************************************************)
(* Method 1: line scan.                                                    *)
(***************************************************************************)
\* faulty variant: only the compact form of the short-term prefix is tested
HasShortTermCompactOnly(line) == Contains(line, <<"tan", "ki">>)

\* the short-term test of the bond branch: not ('tanki' not in line and 'tan ki' not in line)
HasShortTerm(line) ==
    \/ Contains(line, <<"tan", "ki">>)
    \/ Contains(line, <<"tan", " ", "ki">>)

\* faulty variant: the bond branch without its short-term test
LineAmountNoExclusion(security, pattern, line) ==
    IF Contains(line, pattern)
    THEN FirstValid(FindAllNumbers(
            SubSeq(line, Find(line, pattern) + Len(pattern), Len(line))))
    ELSE NotFound

\* what one (security, pattern, line) iteration finds: the amount or NotFound
LineAmount(security, pattern, line) ==
    IF /\ Contains(line, pattern)
       /\ (security = "shasai" => ~HasShortTerm(line))
    THEN LET pattern_index == Find(line, pattern)
             after_pattern == SubSeq(line, pattern_index + Len(pattern), Len(line))
         IN FirstValid(FindAllNumbers(after_pattern))
    ELSE NotFound

\* faulty variant: the loops nested the other way, for line: for pattern
LineScanResultLineMajor(security, lines) ==
    LET patterns == securities_patterns[security]
        nP == Len(patterns)
        hits == {k \in 0..(nP * Len(lines) - 1) :
                    LineAmount(security, patterns[(k % nP) + 1],
                               lines[(k \div nP) + 1]) # NotFound}
    IN IF hits = {} THEN [amount |-> NotFound, at |-> 0]
       ELSE LET k == Min(hits)
            IN [amount |-> LineAmount(security, patterns[(k % nP) + 1],
                                      lines[(k \div nP) + 1]),
                at |-> (k \div nP) + 1]

\* for pattern in patterns: for line in lines: ... break on the first amount.
\* The result records the amount and the line it was taken from (0: none).
LineScanResult(security, lines) ==
    LET patterns == securities_patterns[security]
        nL == Len(lines)
        hits == {k \in 0..(Len(patterns) * nL - 1) :
                    LineAmount(security, patterns[(k \div nL) + 1],
                               lines[(k % nL) + 1]) # NotFound}
    IN IF hits = {} THEN [amount |-> NotFound, at |-> 0]
       ELSE LET k == Min(hits)
            IN [amount |-> LineAmount(security, patterns[(k \div nL) + 1],
                                      lines[(k % nL) + 1]),
                at |-> (k % nL) + 1]

(***************************************************************************)
(* Method 2: regular expressions over the whole text.                      *)
(***************************************************************************)
\* Matching the alias part of a pattern at position i of s.  With flexible,
\* every space of the alias is \s* (pattern.replace(' ', r'\s*')); without,
\* the alias is literal (re.escape(pattern)).  The value is the position
\* after the alias, 0 when the alias does not match at i.
RECURSIVE AliasEnd(_, _, _, _)
AliasEnd(s, alias, i, flexible) ==
    IF alias = <<>> THEN i
    ELSE IF flexible /\ Head(alias) = " "
         THEN AliasEnd(s, Tail(alias),
                       i + RunLen(SubSeq(s, i, Len(s)), Whitespace), flexible)
    ELSE IF i <= Len(s) /\ s[i] = Head(alias)
         THEN AliasEnd(s, Tail(alias), i + 1, flexible)
    ELSE 0

\* group(1) of  <alias>\s+([0-9,]+)  matched at position i; <<>> when no match
MatchAt(s, alias, i, flexible) ==
    LET j == AliasEnd(s, alias, i, flexible)
    IN IF j = 0 THEN <<>>
       ELSE LET ws == RunLen(SubSeq(s, j, Len(s)), Whitespace)
                n == RunLen(SubSeq(s, j + ws, Len(s)), NumChars)
            IN IF ws >= 1 /\ n >= 1 THEN SubSeq(s, j + ws, j + ws + n - 1)
               ELSE <<>>

\* re.search: group(1) of the leftmost match; <<>> when there is none
Search(s, alias, flexible) ==
    LET starts == {i \in 1..Len(s) : MatchAt(s, alias, i, flexible) # <<>>}
    IN IF starts = {} THEN <<>> ELSE MatchAt(s, alias, Min(starts), flexible)

\* the amount one regex yields: found_amount when the match is valid
RegexAmount(s, alias, flexible) ==
    LET found_amount == StripCommas(Search(s, alias, flexible))
    IN IF ValidAmount(found_amount) THEN found_amount ELSE NotFound

\* for pattern in patterns: for regex_pattern in [flexible, escaped]: first valid
RegexResult(security, s) ==
    LET patterns == securities_patterns[security]
        tries == {k \in 0..(2 * Len(patterns) - 1) :
                    RegexAmount(s, patterns[(k \div 2) + 1], k % 2 = 0) # NotFound}
    IN IF tries = {} THEN NotFound
       ELSE LET k == Min(tries)
            IN RegexAmount(s, patterns[(k \div 2) + 1], k % 2 = 0)

\* Whether re.search accepts the first regex built for the security.  The bond
\* regex starts with the look-behind (?<! tan \s* ki \s*), which is not of
\* fixed width: Python's re refuses to compile it and re.search raises
\* re.error("look-behind requires fixed-width pattern").
RegexCompiles(security) == security # "shasai"

(***************************************************************************)
(* Method 3: table scan.                                                   *)
(***************************************************************************)
\* ' '.join([str(cell) if cell else '' for cell in row]); a None cell is <<>>
RowText(row) == Join(row, " ")

\* for cell in row: if cell and isinstance(cell, str): the first valid number
RowAmount(row) ==
    LET ok == {k \in 1..Len(row) : FirstValid(FindAllNumbers(row[k])) # NotFound}
    IN IF ok = {} THEN NotFound ELSE FirstValid(FindAllNumbers(row[Min(ok)]))

\* faulty variant: the `pattern in row_text` test left out
RowHitAnyRow(security, row) == RowAmount(row) # NotFound

\* some pattern of the security is in row_text and the row holds a valid number
RowHit(security, row) ==
    /\ \E k \in 1..Len(securities_patterns[security]) :
          Contains(RowText(row), securities_patterns[security][k])
    /\ RowAmount(row) # NotFound

\* the first row of the table that sets the security (0: none)
TableScanResult(security, table) ==
    LET rows == {r \in 1..Len(table) : RowHit(security, table[r])}
    IN IF rows = {} THEN [amount |-> NotFound, at |-> 0]
       ELSE [amount |-> RowAmount(table[Min(rows)]), at |-> Min(rows)]

(***************************************************************************)
(* Inputs: the page text is a sequence of at most MaxLines lines of        *)
(* LinePool joined by line breaks; tables is no table or one table of at   *)
(* most MaxRows rows of RowPool.                                           *)
(***************************************************************************)
LineTankiSpaced == <<"tan", " ", "ki", " ", "sha", " ", "sai", " ", "1", "2", ",", "3", "4", "5">>

LineShasaiSpaced == <<"sha", " ", "sai", " ", "6", "7", ",", "8", "9", "0">>

\* compact halves separated by one space: no alias occurs literally
LineTankiMixed == <<"tan", "ki", " ", "sha", "sai", " ", "5", ",", "0", "0", "0">>

\* two spaces inside the label: no alias occurs literally
LineKokusaiWide == <<"koku", " ", " ", "sai", " ", "2", "3", ",", "4", "5", "6">>

\* a short run of digits before a long one
LineKokusaiRuns == <<"koku", "sai", " ", "1", "2", "3", " ", "4", "5", ",", "6", "7", "8">>

LineKabushikiShort == <<"kabu", " ", "shiki", " ", "9", "9", "9">>

\* a label with its figure on the next line
LineChihousaiLabel == <<"chi", " ", "hou", " ", "sai">>

LineNumber == <<"3", "4", ",", "5", "6", "7">>

LinePool ==
    {LineTankiSpaced, LineShasaiSpaced, LineTankiMixed, LineKokusaiWide,
     LineKokusaiRuns, LineKabushikiShort, LineChihousaiLabel, LineNumber}

RowKokusai == <<<<"koku", " ", "sai">>, <<"1", "2", ",", "3", "4", "5">>>>

\* the label split over two cells, an empty (None) cell, a short and a long figure
RowKabushikiSplit == <<<<"kabu">>, <<"shiki">>, <<>>, <<"1", "2", "3">>, <<"4", ",", "5", "6", "7">>>>

RowTanki == <<<<"tan", " ", "ki", " ", "sha", " ", "sai">>, <<"9", ",", "9", "9", "9">>>>

RowShasai == <<<<"sha", " ", "sai">>, <<"8", ",", "8", "8", "8">>>>

RowPool == {RowKokusai, RowKabushikiSplit, RowTanki, RowShasai}

SeqsUpTo(S, n) == UNION {[1..k -> S] : k \in 0..n}

TextInputs == {Join(ls, "\n") : ls \in SeqsUpTo(LinePool, MaxLines)}

TablesInputs == {<<>>} \cup {<<t>> : t \in SeqsUpTo(RowPool, MaxRows)}

(***************************************************************************)
(* The year-month of the page, lines 173-180 of extract_securities_from_pdf.*)
(* nen and gatsu are the year and the month character; fw0, fw2, fw3, fw5  *)
(* are full-width digits, which \d of a str pattern matches as well.        *)
(***************************************************************************)
FullWidthDigits == {"fw0", "fw2", "fw3", "fw5"}

\* the characters \d matches
DecimalDigits == Digits \cup FullWidthDigits

\* the "unknown" year-month, two characters
Unknown == <<"fu", "mei">>

NoMatch == [found |-> FALSE, year |-> <<>>, month |-> <<>>]

\* the match of (\d{4})nen\s*(\d{1,2})gatsu that starts at position i of s:
\* four digits, nen, any whitespace, then two digits before gatsu or, failing
\* that, one digit before gatsu
YearMonthMatch(s, i) ==
    LET digitAt(k) == k <= Len(s) /\ s[k] \in DecimalDigits
        charAt(k, ch) == k <= Len(s) /\ s[k] = ch
        m == i + 5 + RunLen(SubSeq(s, i + 5, Len(s)), Whitespace)
    IN IF ~(\A k \in i..(i + 3) : digitAt(k)) \/ ~charAt(i + 4, "nen") THEN NoMatch
       ELSE IF digitAt(m) /\ digitAt(m + 1) /\ charAt(m + 2, "gatsu")
            THEN [found |-> TRUE, year |-> SubSeq(s, i, i + 3), month |-> SubSeq(s, m, m + 1)]
       ELSE IF digitAt(m) /\ charAt(m + 1, "gatsu")
            THEN [found |-> TRUE, year |-> SubSeq(s, i, i + 3), month |-> <<s[m]>>]
       ELSE NoMatch

\* faulty variant: the month is not padded
ZfillNone(num) == num

\* month.zfill(2)
Zfill(num) == IF Len(num) >= 2 THEN num ELSE <<"0">> \o num

\* re.search takes the leftmost match; year_month is f"{year}-{month}"
YearMonthOf(s) ==
    LET starts == {i \in 1..Len(s) : YearMonthMatch(s, i).found}
    IN IF starts = {} THEN Unknown
       ELSE LET match == YearMonthMatch(s, Min(starts))
            IN match.year \o <<"-">> \o Zfill(match.month)

(***************************************************************************)
(* Inputs of extract_securities_from_pdf: the number of pages, and the     *)
(* text and tables of page 2: heading lines that may carry the year-month, *)
(* then the lines of figures.                                              *)
(***************************************************************************)
\* 2025 nen 3 gatsu chuu hei zan, the heading of the source's comment
HeaderHeizan == <<"2", "0", "2", "5", "nen", "3", "gatsu", "chuu", "hei", "zan">>

\* 2025 nen, a space, 12 gatsu
HeaderSpaced == <<"2", "0", "2", "5", "nen", " ", "1", "2", "gatsu">>

\* an era year: rei wa 7 nen 3 gatsu
HeaderEra == <<"rei", "wa", "7", "nen", "3", "gatsu">>

\* five digits before nen
HeaderLongRun == <<"1", "2", "0", "2", "5", "nen", "3", "gatsu">>

\* three digits before gatsu
HeaderThreeDigitMonth == <<"2", "0", "2", "5", "nen", "1", "2", "3", "gatsu">>

\* a fiscal year: 2025 nen do, a space, 3 gatsu
HeaderFiscal == <<"2", "0", "2", "5", "nen", "do", " ", "3", "gatsu">>

\* the year and the month in full-width digits
HeaderFullWidth == <<"fw2", "fw0", "fw2", "fw5", "nen", "fw3", "gatsu">>

\* the year at the end of a line, and the month at the start of a line
HeaderYearOnly == <<"2", "0", "2", "4", "nen">>

HeaderMonthOnly == <<"1", "1", "gatsu">>

HeaderPool ==
    {HeaderHeizan, HeaderSpaced, HeaderEra, HeaderLongRun, HeaderThreeDigitMonth,
     HeaderFiscal, HeaderFullWidth, HeaderYearOnly, HeaderMonthOnly}

HeaderInputs ==
    {<<>>} \cup {<<h>> : h \in HeaderPool} \cup {<<g, h>> : g, h \in HeaderPool}

\* the compact form of the bond label
LineShasaiCompact == <<"sha", "sai", " ", "7", ",", "0", "0", "0">>

BodyInputs ==
    {<<>>, <<LineShasaiSpaced>>, <<LineKabushikiShort>>,
     <<LineShasaiCompact, LineShasaiSpaced>>}

PdfTextInputs == {Join(hs \o bs, "\n") : hs \in HeaderInputs, bs \in BodyInputs}

\* no table, a table without rows, a table with one row
PdfTablesInputs == {<<>>, <<<<>>>>, <<<<RowKabushikiSplit>>>>}

\* len(pdf.pages)
PageCounts == {0, 1, 2}

(***************************************************************************)
(* extract_securities_amounts as a state machine.                          *)
(***************************************************************************)
NoSource == [method |-> "none", at |-> 0]

\* the state at the call of extract_securities_amounts(page_text, tables)
ExInit ==
    /\ text \in TextInputs
    /\ tables \in TablesInputs
    /\ num_pages = 2
    /\ year_month = YearMonthOf(text)
    /\ securities_data = [c \in Categories |-> NotFound]
    /\ found_by = [c \in Categories |-> NoSource]
    /\ pc = "method1"
    /\ idx = 1

\* method 2 runs for a security only `if securities_data[security] == "0"`
NeedsRegex(security, data) == data[security] = NotFound

\* method 3 runs for a security only `if securities_data[security] == "0"`
NeedsTable(security, data) == data[security] = NotFound

\* one iteration of the outer loop of method 1
LineScan ==
    /\ pc = "method1"
    /\ LET security == CategoryOrder[idx]
           r == LineScanResult(security, Split(text))
       IN IF r.amount # NotFound
          THEN /\ securities_data' = [securities_data EXCEPT ![security] = r.amount]
               /\ found_by' = [found_by EXCEPT ![security] = [method |-> "line", at |-> r.at]]
          ELSE UNCHANGED <<securities_data, found_by>>
    /\ IF idx < Len(CategoryOrder)
       THEN pc' = pc /\ idx' = idx + 1
       ELSE pc' = "method2" /\ idx' = 1
    /\ UNCHANGED <<text, tables>>
    /\ UNCHANGED <<pdfVars, dbVars, wrVars>>

\* one iteration of the outer loop of method 2, its regexes compiling
RegexFallback ==
    /\ pc = "method2"
    /\ LET security == CategoryOrder[idx]
           amount == RegexResult(security, text)
       IN /\ NeedsRegex(security, securities_data) => RegexCompiles(security)
          /\ IF NeedsRegex(security, securities_data) /\ amount # NotFound
             THEN /\ securities_data' = [securities_data EXCEPT ![security] = amount]
                  /\ found_by' = [found_by EXCEPT ![security] = [method |-> "regex", at |-> 0]]
             ELSE UNCHANGED <<securities_data, found_by>>
    /\ IF idx < Len(CategoryOrder)
       THEN pc' = pc /\ idx' = idx + 1
       ELSE pc' = "method3" /\ idx' = 1
    /\ UNCHANGED <<text, tables>>
    /\ UNCHANGED <<pdfVars, dbVars, wrVars>>

\* the iteration of method 2 whose re.search raises re.error
RegexRaise ==
    /\ pc = "method2"
    /\ NeedsRegex(CategoryOrder[idx], securities_data)
    /\ ~RegexCompiles(CategoryOrder[idx])
    /\ pc' = "raised"
    /\ UNCHANGED <<text, tables, securities_data, found_by, idx>>
    /\ UNCHANGED <<pdfVars, dbVars, wrVars>>

\* one iteration of the outer loop of method 3: one table
TableScan ==
    /\ pc = "method3"
    /\ idx <= Len(tables)
    /\ LET hit(c) == /\ NeedsTable(c, securities_data)
                     /\ TableScanResult(c, tables[idx]).amount # NotFound
       IN /\ securities_data' =
                [c \in Categories |->
                    IF hit(c) THEN TableScanResult(c, tables[idx]).amount
                    ELSE securities_data[c]]
          /\ found_by' =
                [c \in Categories |->
                    IF hit(c)
                    THEN [method |-> "table", at |-> TableScanResult(c, tables[idx]).at]
                    ELSE found_by[c]]
    /\ idx' = idx + 1
    /\ UNCHANGED <<text, tables, pc>>
    /\ UNCHANGED <<pdfVars, dbVars, wrVars>>

\* return securities_data, debug_info
Return ==
    /\ pc = "method3"
    /\ idx > Len(tables)
    /\ pc' = "returned"
    /\ UNCHANGED <<text, tables, securities_data, found_by, idx>>
    /\ UNCHANGED <<pdfVars, dbVars, wrVars>>

\* the except clause of extract_securities_from_pdf: st.error, return None
HandleException ==
    /\ pc = "raised"
    /\ pc' = "failed"
    /\ UNCHANGED <<text, tables, securities_data, found_by, idx>>
    /\ UNCHANGED <<pdfVars, dbVars, wrVars>>

\* the state at the call of extract_securities_from_pdf(pdf_file): a file
\* with fewer than 2 pages has no page 2 to take text and tables from
PdfInit ==
    /\ num_pages \in PageCounts
    /\ IF num_pages < 2
       THEN text = <<>> /\ tables = <<>>
       ELSE text \in PdfTextInputs /\ tables \in PdfTablesInputs
    /\ year_month = <<>>
    /\ securities_data = [c \in Categories |-> NotFound]
    /\ found_by = [c \in Categories |-> NoSource]
    /\ pc = "open"
    /\ idx = 1

\* faulty variant: the test asks for one page only
TooFewPagesOffByOne(n) == n < 1

\* len(pdf.pages) < 2
TooFewPages(n) == n < 2

\* pdfplumber.open, the page count test, extract_text and extract_tables of
\* page 2; with fewer than 2 pages: st.error, return None
OpenPdf ==
    /\ pc = "open"
    /\ pc' = IF TooFewPages(num_pages) THEN "no_page" ELSE "year_month"
    /\ UNCHANGED <<text, tables, securities_data, found_by, idx>>
    /\ UNCHANGED <<pdfVars, dbVars, wrVars>>

\* the year-month of page_text, then the call of extract_securities_amounts
ExtractYearMonth ==
    /\ pc = "year_month"
    /\ year_month' = YearMonthOf(text)
    /\ pc' = "method1"
    /\ UNCHANGED <<text, tables, securities_data, found_by, idx, num_pages>>
    /\ UNCHANGED <<dbVars, wrVars>>

ExNext ==
    \/ LineScan
    \/ RegexFallback
    \/ RegexRaise
    \/ TableScan
    \/ Return
    \/ HandleException

(***************************************************************************)
(* The ledger: data/securities_database.xlsx.                              *)
(*                                                                         *)
(* Column names are written as ASCII tokens: nengetsu is the year-month    *)
(* column, koushinnichiji the update-time column, the others the category  *)
(* names above.  A cell holds what openpyxl stores: a str (a sequence of   *)
(* characters) for the year-month, an int for an amount; the formatted      *)
(* timestamp string is modelled by the clock reading it is formatted from. *)
(* openpyxl and pandas.read_excel hand str and int cell values back        *)
(* unchanged, so a cell read equals the cell written.                      *)
(***************************************************************************)
\* headers of initialize_database
headers ==
    <<"nengetsu", "kokusai", "chihousai", "tankishasai", "shasai", "kabushiki",
      "gaikokushouken", "sonotanoshouken", "koushinnichiji">>

\* faulty variant: two columns of save_to_database in the other order
columnsMisordered ==
    <<"nengetsu", "kokusai", "chihousai", "shasai", "tankishasai", "kabushiki",
      "gaikokushouken", "sonotanoshouken", "koushinnichiji">>

\* columns of save_to_database
columns ==
    <<"nengetsu", "kokusai", "chihousai", "tankishasai", "shasai", "kabushiki",
      "gaikokushouken", "sonotanoshouken", "koushinnichiji">>

\* securities_list of the confirmation form: the amount fields of final_data
securities_list ==
    <<"kokusai", "chihousai", "tankishasai", "shasai", "kabushiki",
      "gaikokushouken", "sonotanoshouken">>

AmountFields == {securities_list[k] : k \in 1..Len(securities_list)}

\* ord(ch) for the characters of the year-month strings of the model
Ord(ch) ==
    CASE ch = "-" -> 45
      [] ch = "0" -> 48 [] ch = "1" -> 49 [] ch = "2" -> 50 [] ch = "3" -> 51
      [] ch = "4" -> 52 [] ch = "5" -> 53 [] ch = "6" -> 54 [] ch = "7" -> 55
      [] ch = "8" -> 56 [] ch = "9" -> 57

\* a < b for Python str: lexicographic by code point
StrLess(a, b) ==
    \E k \in 1..(Len(b)) :
        /\ k <= Len(a) + 1
        /\ \A j \in 1..(k - 1) : a[j] = b[j]
        /\ (k = Len(a) + 1 \/ Ord(a[k]) < Ord(b[k]))

\* ws.max_row
max_row(ws) == Len(ws)

\* faulty variant: the new workbook is saved without its header row
initialize_databaseNoHeader(exists, ws) == IF exists THEN ws ELSE <<>>

\* initialize_database: the workbook load_workbook then reads
initialize_database(exists, ws) == IF exists THEN ws ELSE <<headers>>

\* faulty variant: the search takes the first data row whatever its year-month
ExistingRowFirst(ws, key) == IF max_row(ws) >= 2 THEN 2 ELSE 0

\* faulty variant: the search never finds the row
ExistingRowNone(ws, key) == 0

\* the search for existing_row; 0 is None
ExistingRow(ws, key) ==
    LET found == {row \in 2..max_row(ws) : ws[row][1] = key}
    IN IF found = {} THEN 0 ELSE Min(found)

\* the cells written for one record: column col holds record[columns[col]]
RowOf(record) == [col \in 1..Len(columns) |-> record[columns[col]]]

\* faulty variant: the record is appended whether or not its row exists
WriteRowAppendOnly(ws, row, record) == Append(ws, RowOf(record))

\* ws.cell(row=row, column=col, value=...) for every column of the row
WriteRow(ws, row, record) ==
    IF row <= Len(ws) THEN [ws EXCEPT ![row] = RowOf(record)]
    ELSE Append(ws, RowOf(record))

\* one row of pd.DataFrame(data_for_sorting, columns=columns)
RecordOf(cells, names) ==
    [name \in {names[k] : k \in 1..Len(names)} |->
        cells[CHOOSE k \in 1..Len(names) : names[k] = name]]

\* the place of record r in the ascending order of the records rs
RECURSIVE InsertSorted(_, _)
InsertSorted(r, rs) ==
    IF rs = <<>> THEN <<r>>
    ELSE IF StrLess(r.nengetsu, Head(rs).nengetsu) THEN <<r>> \o rs
    ELSE <<Head(rs)>> \o InsertSorted(r, Tail(rs))

\* faulty variant: the rows are written back in the order they were read
SortValuesUnsorted(rs) == rs

\* df_sort.sort_values('nengetsu', ascending=True)
RECURSIVE SortValues(_)
SortValues(rs) ==
    IF rs = <<>> THEN <<>>
    ELSE InsertSorted(rs[Len(rs)], SortValues(SubSeq(rs, 1, Len(rs) - 1)))

\* the clear-and-write-back after the sort: the header row stays, the data
\* rows are rewritten from row 2 in the sorted order
SortSheet(ws) ==
    LET data_for_sorting == [k \in 1..(max_row(ws) - 1) |-> RecordOf(ws[k + 1], columns)]
        df_sort == SortValues(data_for_sorting)
    IN <<ws[1]>> \o [k \in 1..Len(df_sort) |-> RowOf(df_sort[k])]

\* faulty variant: the record is written into a new workbook, not the loaded one
SaveResultFresh(exists, ws, data, now) ==
    LET data_with_timestamp ==
            [name \in DOMAIN data \cup {"koushinnichiji"} |->
                IF name = "koushinnichiji" THEN now ELSE data[name]]
    IN [sheet |-> SortSheet(WriteRow(<<headers>>, 2, data_with_timestamp)),
        action |-> "added"]

\* the worksheet save_to_database saves for data at time now, and its action
SaveResult(exists, ws, data, now) ==
    LET ws0 == initialize_database(exists, ws)
        data_with_timestamp ==
            [name \in DOMAIN data \cup {"koushinnichiji"} |->
                IF name = "koushinnichiji" THEN now ELSE data[name]]
        existing_row == ExistingRow(ws0, data.nengetsu)
        ws1 == IF existing_row # 0
               THEN WriteRow(ws0, existing_row, data_with_timestamp)
               ELSE WriteRow(ws0, max_row(ws0) + 1, data_with_timestamp)
    IN [sheet |-> SortSheet(ws1),
        action |-> IF existing_row # 0 THEN "updated" ELSE "added"]

\* pd.read_excel: one record per data row, named by the header row
ReadExcel(ws) == [k \in 1..(Len(ws) - 1) |-> RecordOf(ws[k + 1], ws[1])]

(***************************************************************************)
(* Inputs of the ledger: final_data of the confirmation form.              *)
(***************************************************************************)
\* "2025-03", "2025-10" and the unpadded "2025-3"
KeyMarch == <<"2", "0", "2", "5", "-", "0", "3">>

KeyOctober == <<"2", "0", "2", "5", "-", "1", "0">>

KeyUnpadded == <<"2", "0", "2", "5", "-", "3">>

KeyPool == {KeyMarch, KeyOctober, KeyUnpadded}

\* two sets of amounts that differ in every field, each field from every other
AmountsA == [name \in AmountFields |->
                1000 + (CHOOSE k \in 1..Len(securities_list) : securities_list[k] = name)]

AmountsB == [name \in AmountFields |->
                2000 + (CHOOSE k \in 1..Len(securities_list) : securities_list[k] = name)]

FinalData(corrected_year_month, amounts) ==
    [name \in AmountFields \cup {"nengetsu"} |->
        IF name = "nengetsu" THEN corrected_year_month ELSE amounts[name]]

DataInputs == {FinalData(k, a) : k \in KeyPool, a \in {AmountsA, AmountsB}}

NoCall == [called |-> FALSE]

NotLoaded == [valid |-> FALSE, df |-> <<>>]

\* the two calls of save_to_database that may run side by side
Writers == {"first", "second"}

NoWriters == [w \in Writers |-> [pc |-> "idle"]]

\* no ledger file yet, nothing saved or loaded yet
LedgerStart ==
    /\ db_exists = FALSE
    /\ sheet = <<>>
    /\ clock = 0
    /\ last_save = NoCall
    /\ prev_save = NoCall
    /\ sheet_before = <<>>
    /\ loaded = NotLoaded

DbInit ==
    /\ LedgerStart
    /\ writers = NoWriters

\* the extraction at rest while the ledger runs
ExIdle ==
    /\ text = <<>>
    /\ tables = <<>>
    /\ num_pages = 0
    /\ year_month = <<>>
    /\ securities_data = [c \in Categories |-> NotFound]
    /\ found_by = [c \in Categories |-> NoSource]
    /\ pc = "idle"
    /\ idx = 1

\* save_to_database(data), from initialize_database to wb.save and return
SaveToDatabase ==
    \E data \in DataInputs :
        LET r == SaveResult(db_exists, sheet, data, clock)
        IN /\ db_exists' = TRUE
           /\ sheet' = r.sheet
           /\ sheet_before' = sheet
           /\ prev_save' = last_save
           /\ last_save' = [called |-> TRUE, data |-> data, ok |-> TRUE, action |-> r.action]
           /\ loaded' = NotLoaded
           /\ UNCHANGED clock
           /\ UNCHANGED <<exVars, pdfVars, wrVars>>

\* load_database()
LoadDatabase ==
    /\ loaded' = [valid |-> TRUE,
                  df |-> IF db_exists THEN ReadExcel(sheet) ELSE <<>>]
    /\ UNCHANGED <<db_exists, sheet, clock, last_save, prev_save, sheet_before>>
    /\ UNCHANGED <<exVars, pdfVars, wrVars>>

\* a second passes
Tick ==
    /\ clock < MaxClock
    /\ clock' = clock + 1
    /\ UNCHANGED <<db_exists, sheet, last_save, prev_save, sheet_before, loaded>>
    /\ UNCHANGED <<exVars, pdfVars, wrVars>>

DbNext ==
    \/ SaveToDatabase
    \/ LoadDatabase
    \/ Tick

(***************************************************************************)
(* Specifications: Spec runs one extraction, SpecLedger the ledger,        *)
(* SpecPdf one call of extract_securities_from_pdf.  SpecFaults and        *)
(* SpecWriters are defined with their actions below.                       *)
(***************************************************************************)
Init == ExInit /\ DbInit

Next == ExNext

Spec == Init /\ [][Next]_vars

LedgerInit == ExIdle /\ DbInit

LedgerNext == DbNext

SpecLedger == LedgerInit /\ [][LedgerNext]_vars

PdfNext ==
    \/ OpenPdf
    \/ ExtractYearMonth
    \/ ExNext

InitPdf == PdfInit /\ DbInit

\* one call of extract_securities_from_pdf
SpecPdf == InitPdf /\ [][PdfNext]_vars

(***************************************************************************)
(* The ledger with failing file operations, SpecFaults.  A file that a     *)
(* write left truncated exists and holds no worksheet: db_exists with the  *)
(* empty sheet.  load_workbook and pd.read_excel raise on such a file.     *)
(***************************************************************************)
\* the file is absent or holds a workbook that can be read
Readable == db_exists => sheet # <<>>

\* the calls of save_to_database that touch the file system
FailureSteps == {"initialize_database", "load_workbook", "wb.save"}

\* save_to_database(data) when one of its file operations raises: the except
\* clause returns False and the message.  initialize_database has by then
\* created a missing file; wb.save writes the file in place, so the write left
\* it as it was (the open failed) or truncated (the write failed midway).
SaveFails ==
    \E data \in DataInputs, step \in FailureSteps, truncated \in BOOLEAN :
        /\ step = "initialize_database" => ~db_exists
        /\ step = "load_workbook" => ~truncated
        /\ step = "wb.save" => Readable
        /\ ~Readable => step = "load_workbook"
        /\ IF truncated
           THEN db_exists' = TRUE /\ sheet' = <<>>
           ELSE IF step = "initialize_database"
           THEN UNCHANGED <<db_exists, sheet>>
           ELSE /\ db_exists' = TRUE
                /\ sheet' = initialize_database(db_exists, sheet)
        /\ sheet_before' = sheet
        /\ prev_save' = last_save
        /\ last_save' = [called |-> TRUE, data |-> data, ok |-> FALSE, action |-> step]
        /\ loaded' = NotLoaded
        /\ UNCHANGED clock
        /\ UNCHANGED <<exVars, pdfVars, wrVars>>

\* load_database() when pd.read_excel raises: st.error shows the message and
\* the caller gets an empty DataFrame
LoadFails ==
    /\ db_exists
    /\ loaded' = [valid |-> TRUE, df |-> <<>>]
    /\ UNCHANGED <<db_exists, sheet, clock, last_save, prev_save, sheet_before>>
    /\ UNCHANGED <<exVars, pdfVars, wrVars>>

(***************************************************************************)
(* Two calls of save_to_database for different year-months running side by *)
(* side (two sessions of the app on one data directory), SpecWriters.  The  *)
(* code takes no lock; a step is one file operation of a call, or its      *)
(* update of the workbook it holds in memory.                              *)
(***************************************************************************)
\* the other of the two calls
Other(w) == CHOOSE v \in Writers : v # w

\* the two calls about to start, each with its record
WritersStart ==
    {[w \in Writers |->
        [pc |-> "start", data |-> d[w], saw_file |-> FALSE, wb |-> <<>>,
         action |-> "none", after_other |-> FALSE, saw_other |-> FALSE,
         saved_last |-> FALSE]] :
       d \in {f \in [Writers -> DataInputs] :
                 f["first"].nengetsu # f["second"].nengetsu}}

WritersInit ==
    /\ ExIdle
    /\ LedgerStart
    /\ writers \in WritersStart

\* initialize_database: os.path.exists(db_path)
WriterCheck(w) ==
    /\ writers[w].pc = "start"
    /\ writers' = [writers EXCEPT ![w] =
                      [@ EXCEPT !.pc = "checked",
                                !.saw_file = db_exists,
                                !.after_other = (writers[Other(w)].pc = "done")]]
    /\ UNCHANGED dbVars
    /\ UNCHANGED <<exVars, pdfVars>>

\* initialize_database: a call that saw no file saves a new workbook with the
\* header row
WriterCreate(w) ==
    /\ writers[w].pc = "checked"
    /\ IF writers[w].saw_file
       THEN UNCHANGED <<db_exists, sheet>>
       ELSE db_exists' = TRUE /\ sheet' = initialize_database(FALSE, sheet)
    /\ writers' = [writers EXCEPT ![w] = [@ EXCEPT !.pc = "initialized"]]
    /\ UNCHANGED <<clock, last_save, prev_save, sheet_before, loaded>>
    /\ UNCHANGED <<exVars, pdfVars>>

\* wb = load_workbook(db_path)
WriterLoad(w) ==
    /\ writers[w].pc = "initialized"
    /\ writers' = [writers EXCEPT ![w] =
                      [@ EXCEPT !.pc = "loaded",
                                !.wb = sheet,
                                !.saw_other =
                                    (\E row \in 2..Len(sheet) :
                                        sheet[row][1] = writers[Other(w)].data.nengetsu)]]
    /\ UNCHANGED dbVars
    /\ UNCHANGED <<exVars, pdfVars>>

\* the update or append and the sort, in the workbook the call holds
WriterModify(w) ==
    /\ writers[w].pc = "loaded"
    /\ LET r == SaveResult(TRUE, writers[w].wb, writers[w].data, clock)
       IN writers' = [writers EXCEPT ![w] =
                         [@ EXCEPT !.pc = "modified", !.wb = r.sheet, !.action = r.action]]
    /\ UNCHANGED dbVars
    /\ UNCHANGED <<exVars, pdfVars>>

\* wb.save(db_path); return True, action
WriterSave(w) ==
    /\ writers[w].pc = "modified"
    /\ db_exists' = TRUE
    /\ sheet' = writers[w].wb
    /\ writers' = [writers EXCEPT ![w] = [@ EXCEPT !.pc = "done", !.saved_last = TRUE],
                                  ![Other(w)] = [@ EXCEPT !.saved_last = FALSE]]
    /\ UNCHANGED <<clock, last_save, prev_save, sheet_before, loaded>>
    /\ UNCHANGED <<exVars, pdfVars>>

WritersNext ==
    \E w \in Writers :
        \/ WriterCheck(w)
        \/ WriterCreate(w)
        \/ WriterLoad(w)
        \/ WriterModify(w)
        \/ WriterSave(w)

SpecWriters == WritersInit /\ [][WritersNext]_vars

FaultNext ==
    \/ Readable /\ SaveToDatabase
    \/ SaveFails
    \/ Readable /\ LoadDatabase
    \/ LoadFails

SpecFaults == LedgerInit /\ [][FaultNext]_vars

(***************************************************************************)
(* Properties of the extraction, under Spec.                               *)
(***************************************************************************)
Lines == Split(text)

Terminated == pc \in {"returned", "raised", "failed"}

\* the table grid has no rows
NoRows == \A t \in 1..Len(tables) : tables[t] = <<>>

\* some alias of the category occurs literally in s
AliasIn(c, s) ==
    \E k \in 1..Len(securities_patterns[c]) : Contains(s, securities_patterns[c][k])

\* some alias of the category occurs in s with every interior space of the
\* alias standing for any run of whitespace, the empty run included
FlexibleAliasIn(c, s) ==
    \E k \in 1..Len(securities_patterns[c]) :
        \E i \in 1..Len(s) : AliasEnd(s, securities_patterns[c][k], i, TRUE) # 0

\* some alias of the category occurs literally in a cell of the tables
AliasInCell(c) ==
    \E t \in 1..Len(tables) : \E r \in 1..Len(tables[t]) :
        \E k \in 1..Len(tables[t][r]) : AliasIn(c, tables[t][r][k])

\* some alias of the category occurs literally in the space-joined text of a row
AliasInRow(c) ==
    \E t \in 1..Len(tables) : \E r \in 1..Len(tables[t]) :
        AliasIn(c, RowText(tables[t][r]))

\* C1 (as claimed): extract never raises; it returns a mapping with exactly one
\* entry for each of the 7 categories, a category no strategy resolves being
\* reported as not found.
C1_NeverRaises ==
    /\ pc \notin {"raised", "failed"}
    /\ pc = "returned" => DOMAIN securities_data = Categories

\* C2 (as claimed): if the page text is empty or the table grid has no rows,
\* extract does not raise and resolves every category to not found.
C2_EmptyInputAllNotFound ==
    (text = <<>> \/ NoRows) =>
        /\ pc \notin {"raised", "failed"}
        /\ pc = "returned" => \A c \in Categories : securities_data[c] = NotFound

\* the scenario of C3: the two lines are in the text, and no other line
\* carries a label of the two categories
C3_Scenario ==
    /\ \E l \in 1..Len(Lines) : Lines[l] = LineTankiSpaced
    /\ \E l \in 1..Len(Lines) : Lines[l] = LineShasaiSpaced
    /\ \A l \in 1..Len(Lines) :
          Lines[l] \notin {LineTankiSpaced, LineShasaiSpaced} => ~AliasIn("shasai", Lines[l])

\* C3: a text with the line `tan ki sha sai 12,345` and the separate line
\* `sha sai 67,890` (the only lines carrying these labels) never makes extract
\* raise, never gives bond the short-term figure, and is returned with
\* short-term-note = 12345 and bond = 67890.
C3_ShortTermAndBondSeparated ==
    C3_Scenario =>
        /\ pc \notin {"raised", "failed"}
        /\ securities_data["shasai"] \in {NotFound, <<"6", "7", "8", "9", "0">>}
        /\ pc = "returned" =>
              /\ securities_data["tankishasai"] = <<"1", "2", "3", "4", "5">>
              /\ securities_data["shasai"] = <<"6", "7", "8", "9", "0">>

C3_Witness ==
    /\ C3_Scenario
    /\ pc = "returned"
    /\ Lines[1] = LineTankiSpaced
    /\ securities_data["shasai"] = <<"6", "7", "8", "9", "0">>

\* C4: bond is never given an amount taken from a line that carries a
\* short-term-note alias: a bond amount found by the line scan comes from a
\* line without such an alias, and the regex fallback never sets bond.
C4_BondNeverFromShortTermLine ==
    /\ found_by["shasai"].method = "line" =>
          ~AliasIn("tankishasai", Lines[found_by["shasai"].at])
    /\ found_by["shasai"].method # "regex"

\* a line carries a short-term-note alias with a valid figure, short-term-note
\* took it, and bond took its figure from another line
C4_Witness ==
    /\ pc = "returned"
    /\ found_by["tankishasai"].method = "line"
    /\ AliasIn("tankishasai", Lines[found_by["tankishasai"].at])
    /\ AliasIn("shasai", Lines[found_by["tankishasai"].at])
    /\ found_by["shasai"].method = "line"
    /\ found_by["shasai"].at # found_by["tankishasai"].at

\* C5: every value of the result mapping is the not-found sentinel or a string
\* of at least 4 digits, whichever method accepted it.
C5_AmountsHaveFourDigits ==
    \A c \in Categories :
        \/ securities_data[c] = NotFound
        \/ /\ Len(securities_data[c]) >= 4
           /\ \A k \in 1..Len(securities_data[c]) : securities_data[c][k] \in Digits

\* a 3-digit figure stands next to the stock label in the text and in the table
\* row; neither is accepted, the 4-digit figure of the row is
C5_Witness ==
    /\ pc = "returned"
    /\ \E l \in 1..Len(Lines) : Lines[l] = LineKabushikiShort
    /\ found_by["kabushiki"].method = "table"
    /\ securities_data["kabushiki"] = <<"4", "5", "6", "7">>

\* C6 (as claimed): a category none of whose aliases occurs literally anywhere
\* in the page text or the table grid is returned as not found.
C6_NoLiteralAliasNotFound ==
    \A c \in Categories :
        (pc = "returned" /\ ~AliasIn(c, text) /\ ~AliasInCell(c) /\ ~AliasInRow(c))
            => securities_data[c] = NotFound

\* C6 (amended): a category is never given an amount when none of its aliases
\* occurs in the page text, an interior space of the alias standing for any run
\* of whitespace (none included), nor literally in the space-joined text of a
\* table row.
C6_NoFlexibleAliasNotFound ==
    \A c \in Categories :
        securities_data[c] # NotFound => (FlexibleAliasIn(c, text) \/ AliasInRow(c))

\* the input holds figures and labels of other categories, none of government
\* bond, and government bond is returned as not found
C6_Witness ==
    /\ pc = "returned"
    /\ ~FlexibleAliasIn("kokusai", text)
    /\ ~AliasInRow("kokusai")
    /\ securities_data["kokusai"] = NotFound
    /\ found_by["kabushiki"].method = "table"

\* what the fixed order line scan, regex fallback, table scan gives a category
RECURSIVE FirstTable(_, _)
FirstTable(c, t) ==
    IF t > Len(tables) THEN NotFound
    ELSE IF TableScanResult(c, tables[t]).amount # NotFound
         THEN TableScanResult(c, tables[t]).amount
    ELSE FirstTable(c, t + 1)

FirstStrategy(c) ==
    IF LineScanResult(c, Lines).amount # NotFound THEN LineScanResult(c, Lines).amount
    ELSE IF RegexResult(c, text) # NotFound THEN RegexResult(c, text)
    ELSE FirstTable(c, 1)

\* C7 (as claimed): extract ends by returning, for each category, the value of
\* the first of line scan, regex fallback and table scan that yields a valid
\* one, and not found when all three fail.
C7_FirstStrategyDecides ==
    Terminated =>
        /\ pc = "returned"
        /\ \A c \in Categories : securities_data[c] = FirstStrategy(c)

(***************************************************************************)
(* Properties of the ledger, under SpecLedger.                             *)
(***************************************************************************)
\* the year-month and amount cells of the data rows, the timestamp left out
AmountCells(ws) ==
    [k \in 1..(Len(ws) - 1) |-> SubSeq(ws[k + 1], 1, Len(columns) - 1)]

\* C8: saving the same record twice in a row leaves exactly one row with its
\* year-month, the second call returns "updated", and the year-month and
\* amount cells of the sheet after the second call are those after the first.
C8_UpsertIdempotent ==
    (last_save.called /\ prev_save.called /\ last_save.data = prev_save.data) =>
        /\ last_save.ok
        /\ last_save.action = "updated"
        /\ Cardinality({row \in 2..Len(sheet) :
                           sheet[row][1] = last_save.data.nengetsu}) = 1
        /\ AmountCells(sheet) = AmountCells(sheet_before)

\* the same record was saved twice, a second apart, beside two other records
C8_Witness ==
    /\ last_save.called
    /\ prev_save.called
    /\ last_save.data = prev_save.data
    /\ Len(sheet) = 4
    /\ sheet # sheet_before

\* C9: the saved data rows are in strictly ascending year-month order, and
\* load_database returns the records in that same order, strictly ascending.
C9_SortedUnique ==
    /\ \A row \in 2..(Len(sheet) - 1) : StrLess(sheet[row][1], sheet[row + 1][1])
    /\ loaded.valid =>
          /\ Len(loaded.df) = (IF db_exists THEN Len(sheet) - 1 ELSE 0)
          /\ \A k \in 1..Len(loaded.df) : loaded.df[k].nengetsu = sheet[k + 1][1]
          /\ \A k \in 1..(Len(loaded.df) - 1) :
                StrLess(loaded.df[k].nengetsu, loaded.df[k + 1].nengetsu)

\* three records are loaded, the earliest year-month having been added last
C9_Witness ==
    /\ loaded.valid
    /\ Len(loaded.df) = 3
    /\ last_save.action = "added"
    /\ last_save.data.nengetsu = KeyMarch
    /\ loaded.df[1].nengetsu = KeyMarch

\* C10: load_database after a successful save_to_database(data) returns a
\* record with the year-month of data whose every amount field equals data's.
C10_RoundTrip ==
    (loaded.valid /\ last_save.called /\ last_save.ok) =>
        \E k \in 1..Len(loaded.df) :
            /\ loaded.df[k].nengetsu = last_save.data.nengetsu
            /\ \A f \in AmountFields : loaded.df[k][f] = last_save.data[f]

\* a record replaced another of the same year-month, beside other records,
\* and was loaded back
C10_Witness ==
    /\ loaded.valid
    /\ last_save.called
    /\ last_save.action = "updated"
    /\ Len(loaded.df) >= 2
    /\ \E k \in 1..Len(loaded.df) :
          /\ loaded.df[k].nengetsu = last_save.data.nengetsu
          /\ \A f \in AmountFields : loaded.df[k][f] = last_save.data[f]

\* the data rows of ws that carry the year-month
RowsWith(ws, key) == {row \in 2..Len(ws) : ws[row][1] = key}

\* the number of records of the ledger file whose worksheet is ws
RecordCount(ws) == IF ws = <<>> THEN 0 ELSE Len(ws) - 1

\* the step is a call of save_to_database that changed the ledger or its log
SaveStep ==
    <<sheet, last_save, prev_save, sheet_before>>' # <<sheet, last_save, prev_save, sheet_before>>

\* C11: save_to_database returns "updated" exactly when a row with the
\* year-month of the record exists; it then overwrites every amount cell and
\* the timestamp of that row and the number of records stays the same;
\* otherwise it returns "added" and the number of records grows by exactly one.
C11_UpdatedIffExists ==
    [][SaveStep =>
          LET data == last_save'.data
              existed == RowsWith(sheet, data.nengetsu) # {}
              rows == RowsWith(sheet', data.nengetsu)
          IN /\ last_save'.ok
             /\ last_save'.action = (IF existed THEN "updated" ELSE "added")
             /\ RecordCount(sheet') = RecordCount(sheet) + (IF existed THEN 0 ELSE 1)
             /\ rows # {}
             /\ \A row \in rows :
                   /\ \A col \in 2..(Len(columns) - 1) :
                         sheet'[row][col] = data[columns[col]]
                   /\ sheet'[row][Len(columns)] = clock]_vars

\* a record was replaced a second after it was added, beside another record:
\* the amounts and the timestamp of its row changed, the row count did not
C11_Witness ==
    /\ last_save.called
    /\ last_save.action = "updated"
    /\ Len(sheet) = 3
    /\ Len(sheet_before) = 3
    /\ \E row \in RowsWith(sheet, last_save.data.nengetsu) :
          /\ sheet[row][Len(columns)] = 1
          /\ sheet_before[row][Len(columns)] = 0
          /\ sheet[row][2] # sheet_before[row][2]

\* C12 (as claimed): the first call of load_database on an absent ledger
\* leaves the ledger file created, as the first call of save_to_database does.
C12_LoadInitializes == loaded.valid => db_exists

\* C12 (amended): the ledger file is absent or initialized.  The first call of
\* save_to_database on an absent ledger creates it with the header row only
\* and then appends, leaving the header row and the one record; load_database
\* on an absent ledger returns no records, is no error and leaves the ledger
\* absent; no call takes an initialized ledger back to absent.
C12_AbsentThenInitialized ==
    [][/\ db_exists => db_exists'
       /\ (~db_exists /\ SaveStep) =>
             /\ initialize_database(db_exists, sheet) = <<headers>>
             /\ db_exists'
             /\ sheet'[1] = headers
             /\ RecordCount(sheet') = 1
       /\ (~db_exists /\ loaded'.valid) =>
             /\ ~db_exists'
             /\ loaded'.df = <<>>]_vars

\* load_database ran on the absent ledger a second after the start: it
\* returned no records and the ledger is still absent
C12_Witness ==
    /\ ~db_exists
    /\ loaded.valid
    /\ loaded.df = <<>>
    /\ clock = 1

\* C19: a successful save_to_database of a record changes no other record:
\* every row of another year-month is in the sheet afterwards with the same
\* amounts and the same timestamp (its row number may differ), no year-month
\* is lost, no other row appears, and the header row is unchanged.
C19_OtherRecordsUntouched ==
    (last_save.called /\ last_save.ok) =>
        /\ \A row \in 2..Len(sheet_before) :
              /\ RowsWith(sheet, sheet_before[row][1]) # {}
              /\ sheet_before[row][1] # last_save.data.nengetsu =>
                    \E after \in 2..Len(sheet) : sheet[after] = sheet_before[row]
        /\ \A after \in 2..Len(sheet) :
              sheet[after][1] # last_save.data.nengetsu =>
                  \E row \in 2..Len(sheet_before) : sheet_before[row] = sheet[after]
        /\ sheet[1] = headers
        /\ sheet_before # <<>> => sheet[1] = sheet_before[1]

\* the earliest year-month was added a second after two other records: both
\* moved down a row and kept their amounts and their timestamp
C19_Witness ==
    /\ last_save.called
    /\ last_save.action = "added"
    /\ last_save.data.nengetsu = KeyMarch
    /\ Len(sheet_before) = 3
    /\ Len(sheet) = 4
    /\ sheet[3] = sheet_before[2]
    /\ sheet[4] = sheet_before[3]
    /\ sheet[3][Len(columns)] = 0
    /\ sheet[2][Len(columns)] = 1

(***************************************************************************)
(* Properties of the ledger with failing file operations, under SpecFaults.*)
(***************************************************************************)
\* the file exists and cannot be read
Unreadable == db_exists /\ sheet = <<>>

\* the data rows of the worksheet ws
DataRows(ws) == SubSeq(ws, 2, Len(ws))

\* the step is a call of save_to_database that returned False
FailedSaveStep ==
    /\ <<db_exists, sheet, last_save, prev_save, sheet_before>>'
          # <<db_exists, sheet, last_save, prev_save, sheet_before>>
    /\ last_save'.called
    /\ ~last_save'.ok

\* C13 (as claimed): a call of save_to_database that fails, at whatever step,
\* leaves the persisted records exactly as they were before the call: the
\* file can be read afterwards if it could before, and holds the same rows.
C13_FailedSaveKeepsRecords ==
    [][FailedSaveStep =>
          /\ Unreadable' <=> Unreadable
          /\ DataRows(sheet') = DataRows(sheet)]_vars

\* a save failed in wb.save on a ledger that held two records, and the
\* ledger can no longer be read
C13_Witness ==
    /\ last_save.called
    /\ ~last_save.ok
    /\ last_save.action = "wb.save"
    /\ Len(sheet_before) = 3
    /\ Unreadable

(***************************************************************************)
(* Properties of extract_securities_from_pdf, under SpecPdf.               *)
(***************************************************************************)
\* the keys of the occurrences at position i of s: 4 digits, the year
\* character, w whitespace characters, n = 1 or 2 digits, the month character
PeriodKeysAt(s, i) ==
    {SubSeq(s, i, i + 3) \o <<"-">> \o (IF wn[2] = 1 THEN <<"0">> ELSE <<>>)
         \o SubSeq(s, i + 5 + wn[1], i + 4 + wn[1] + wn[2]) :
       wn \in {x \in (0..Len(s)) \X {1, 2} :
                  /\ i + 5 + x[1] + x[2] <= Len(s)
                  /\ \A k \in i..(i + 3) : s[k] \in DecimalDigits
                  /\ s[i + 4] = "nen"
                  /\ \A k \in (i + 5)..(i + 4 + x[1]) : s[k] \in Whitespace
                  /\ \A k \in (i + 5 + x[1])..(i + 4 + x[1] + x[2]) : s[k] \in DecimalDigits
                  /\ s[i + 5 + x[1] + x[2]] = "gatsu"}}

\* the year-month step of extract_securities_from_pdf has run
YearMonthTaken == pc \notin {"idle", "open", "no_page", "year_month"}

\* C14: taking the year-month of the page text never raises; the result is,
\* for the first occurrence in the text of a 4-digit year, the year character,
\* (possibly whitespace,) a 1- or 2-digit month and the month character, the
\* key <year>-<month padded to 2 digits>, so that a text whose first
\* occurrence is `2025 nen 3 gatsu chuu hei zan` gives "2025-03"; it is the
\* unknown sentinel when there is no occurrence; and every other result is 4
\* digits, a hyphen and 2 digits.
C14_YearMonthOfFirstOccurrence ==
    /\ YearMonthTaken <=> year_month # <<>>
    /\ YearMonthTaken =>
          LET occurrences == {i \in 1..Len(text) : PeriodKeysAt(text, i) # {}}
          IN /\ occurrences = {} => year_month = Unknown
             /\ occurrences # {} => year_month \in PeriodKeysAt(text, Min(occurrences))
             /\ (occurrences # {} /\ Min(occurrences) = Find(text, HeaderHeizan))
                   => year_month = KeyMarch
             /\ year_month # Unknown =>
                   /\ Len(year_month) = 7
                   /\ year_month[5] = "-"
                   /\ \A k \in {1, 2, 3, 4, 6, 7} : year_month[k] \in DecimalDigits

\* the heading `2025 nen 3 gatsu chuu hei zan` follows a line with an era year
\* and no occurrence, and the call returned with the year-month "2025-03"
C14_Witness ==
    /\ pc = "returned"
    /\ Len(Lines) = 3
    /\ Lines[1] = HeaderEra
    /\ Lines[2] = HeaderHeizan
    /\ year_month = KeyMarch

\* C15 (as claimed): a file with fewer than 2 pages and a page whose table
\* grid is empty are both reported as unusable input: no result mapping is
\* returned, and nothing is extracted from a missing page.
C15_ShapeErrorsGiveNoResult ==
    (num_pages < 2 \/ NoRows) =>
        /\ pc # "returned"
        /\ num_pages < 2 => (year_month = <<>> /\ pc \in {"open", "no_page"})

\* C15 (amended): a file with fewer than 2 pages, and only such a file, is
\* reported as unusable input: the call returns None at the page count test
\* and extracts nothing, neither year-month nor amounts.  An empty table
\* grid is not reported so: the extraction runs on the page text, and no
\* amount comes from the table scan.
C15_OnlyPageCountIsShapeError ==
    /\ num_pages < 2 =>
          /\ pc \in {"open", "no_page"}
          /\ year_month = <<>>
          /\ \A c \in Categories : securities_data[c] = NotFound
    /\ pc = "no_page" => num_pages < 2
    /\ (num_pages >= 2 /\ NoRows) =>
          \A c \in Categories : found_by[c].method # "table"

\* a file of one page was opened and the call returned None at the page
\* count test
C15_Witness ==
    /\ num_pages = 1
    /\ pc = "no_page"
    /\ year_month = <<>>

RunsAfter(line, pattern) ==
    FindAllNumbers(SubSeq(line, Find(line, pattern) + Len(pattern), Len(line)))

\* the line scan has gone through the category
LineScanned(c) ==
    \/ pc \in {"method2", "method3", "returned", "raised", "failed"}
    \/ pc = "method1" /\ \E k \in 1..(idx - 1) : CategoryOrder[k] = c

\* the line scan has just gone through the last category
LineScanEnded == pc = "method2" /\ idx = 1

\* the line may give the category an amount: it is not a short-term line
\* when the category is bond
NotExcluded(c, line) == c = "shasai" => ~HasShortTerm(line)

C18_AliasOrderBeforeLineOrder ==
    \A c \in Categories :
        LineScanned(c) =>
            LET patterns == securities_patterns[c]
                yields(k) == {l \in 1..Len(Lines) :
                                LineAmount(c, patterns[k], Lines[l]) # NotFound}
                yielding == {k \in 1..Len(patterns) : yields(k) # {}}
            IN IF yielding = {} THEN found_by[c].method # "line"
               ELSE /\ found_by[c] = [method |-> "line", at |-> Min(yields(Min(yielding)))]
                    /\ securities_data[c] =
                          LineAmount(c, patterns[Min(yielding)],
                                     Lines[Min(yields(Min(yielding)))])

\* the compact bond label with 7,000 stands on line 1 and the spaced label
\* with 67,890 on line 2: bond is 67890, taken from line 2
C18_Witness ==
    /\ pc = "returned"
    /\ Len(Lines) = 2
    /\ Lines[1] = LineShasaiCompact
    /\ Lines[2] = LineShasaiSpaced
    /\ found_by["shasai"] = [method |-> "line", at |-> 2]
    /\ securities_data["shasai"] = <<"6", "7", "8", "9", "0">>

(***************************************************************************)
(* Properties of two calls of save_to_database side by side, under         *)
(* SpecWriters.                                                            *)
(***************************************************************************)
\* both calls have returned
BothDone == \A w \in Writers : writers[w].pc = "done"

\* one call started after the other had returned
Serialised == \E w \in Writers : writers[w].after_other

\* the record of call w is in the ledger, with its amounts
RecordSaved(w) ==
    \E row \in 2..Len(sheet) :
        /\ sheet[row][1] = writers[w].data.nengetsu
        /\ \A col \in 2..(Len(columns) - 1) :
              sheet[row][col] = writers[w].data[columns[col]]

\* C20: save_to_database takes no lock.  When two calls for different
\* year-months have both returned, the ledger holds the record of the call
\* that saved last, and the record of the other call exactly when the last
\* call had loaded it: the later save overwrites the earlier one.  When the
\* calls were serialised, both records are in the ledger.
C20_LastSaveWins ==
    BothDone =>
        /\ \A w \in Writers :
              writers[w].saved_last =>
                  /\ RecordSaved(w)
                  /\ RecordSaved(Other(w)) <=> writers[w].saw_other
        /\ \E w \in Writers : writers[w].saved_last
        /\ Serialised => \A w \in Writers : RecordSaved(w)

\* both calls loaded the workbook before either saved; both returned "added"
\* and the ledger holds one record only, that of the call that saved last
C20_Witness ==
    /\ BothDone
    /\ ~Serialised
    /\ \A w \in Writers : writers[w].action = "added" /\ ~writers[w].saw_other
    /\ Len(sheet) = 2
    /\ writers["second"].saved_last
    /\ RecordSaved("second")
    /\ ~RecordSaved("first")

====
